---- MODULE Spec2Model ----
(***************************************************************************)
(* planefinder-kml: the ingestion-and-state pipeline.                      *)
(*   firehose_client.py  DLEProtocol.extract_frames, FirehoseClient        *)
(*   data_processor.py   DataProcessor (filter, statistics, callbacks)     *)
(*   kmz_generator.py    OptimizedKMZGenerator (aircraft cache)            *)
(* Python indices are 0-based; sequences here are 1-based, so a Python     *)
(* index i is i+1 here and `i < len(buffer) - 1` reads `i < Len(buffer)`.  *)
(***************************************************************************)
EXTENDS Integers, Sequences, FiniteSets, TLC

VARIABLES
    \* ---- framing codec (firehose_client.py) ----
    stream,     \* the bytes the server sends, in order
    split,      \* how many of them the first recv returns
    phase,      \* "start" | "first" | "done": extract_frames calls made so far
    chunk,      \* the buffer handed to the last extract_frames call
    result,     \* what that call returned
    buffer,     \* FirehoseClient.buffer
    frames,     \* every frame _process_buffer has iterated over, in order
    \* ---- DataProcessor (data_processor.py) ----
    filters,    \* DataProcessor.filters
    stats,      \* DataProcessor.stats
    \* ---- OptimizedKMZGenerator (kmz_generator.py) ----
    clock,              \* what time.time() returns now
    lock,               \* holder of OptimizedKMZGenerator._lock, or "none"
    heap,               \* the dict objects stored in the cache, by reference
    aircraft_database,  \* insertion-ordered dict: sequence of [key, ref]
    last_update_time,   \* OptimizedKMZGenerator.last_update_time
    \* ---- the ingestion thread, inside process_aircraft_data ----
    pc,             \* "idle" | "callback" | "upsert" | "evict" | "returned"
    payload,        \* aircraft_dict of the call in progress (last call when idle)
    aircraft_list,  \* filtered_aircraft handed to the callback
    idx,            \* position of the for loop of lines 32-50
    current_time,   \* local of update_aircraft_data
    expired_aircraft, \* local of update_aircraft_data
    before,         \* cache contents when update_aircraft_data was entered
    committed,      \* cache contents when update_aircraft_data last returned
    \* ---- a reader thread (web server, status) ----
    snap,       \* the list get_current_aircraft returned: references
    seen,       \* the field values of its entries when it was returned
    snapInfo,   \* clock, last_update_time and committed at that call
    \* ---- DataProcessor, statement by statement (data_processor.py) ----
    fpc,            \* "idle" | "filter" | "notify" | "done" | "raised"
    all_aircraft,   \* local of process_aircraft_data: the batch
    fidx,           \* position of the for loop of lines 36-38
    filtered_aircraft, \* local of process_aircraft_data: accepted so far
    callbacks,      \* DataProcessor.callbacks, in registration order
    cbidx,          \* position of the for loop of lines 48-52
    invoked,        \* the callback invocations of the call in progress
    atCall,         \* stats, filters and update count when the call began
    upd,            \* how many update_filters calls, the last one's argument
    statsCopy,      \* the dict get_stats last returned, and when it was taken
    \* ---- FirehoseClient session (firehose_client.py) ----
    running,        \* FirehoseClient.running
    connected,      \* FirehoseClient.connected
    socket,         \* the object self.socket refers to: "None" | "open" | "closed"
    tpc,            \* position of each _run_client thread
    cpc,            \* position of the thread that calls start() and stop()
    prev,           \* per thread: how its last attempt ended, the wait since
    att,            \* per thread: what its latest attempt followed, after which wait
    \* ---- the read loop of a _run_client thread, frame by frame ----
    recv_data,      \* per thread: data, the bytes recv returned (line 145)
    pending,        \* per thread: local of _process_buffer, the frames still to handle
    sockconn,       \* which connection the object self.socket refers to belongs to
    reads,          \* how many recv calls have returned bytes of frames
    applied,        \* the lists update_aircraft_data was called with, in order
    timed_out,      \* a recv has timed out since bytes were last received
    authed          \* the credentials were sent on the connection of self.socket

codecVars == <<stream, split, phase, chunk, result, buffer, frames>>
filterVars == <<filters, stats>>
cacheVars == <<clock, lock, heap, aircraft_database, last_update_time>>
ingestVars == <<pc, payload, aircraft_list, idx, current_time, expired_aircraft,
                before, committed>>
readerVars == <<snap, seen, snapInfo>>

procVars == <<fpc, all_aircraft, fidx, filtered_aircraft, callbacks, cbidx,
              invoked, atCall, upd, statsCopy>>
sessVars == <<running, connected, socket, tpc, cpc, prev, att>>

sessVarsButTpc == <<running, connected, socket, cpc, prev, att>>
pipeVars == <<recv_data, pending, sockconn, reads, applied, timed_out,
             authed>>

vars == <<codecVars, filterVars, cacheVars, ingestVars, readerVars, procVars,
          sessVars, pipeVars>>

----------------------------------------------------------------------------
(* Bounds of the model *)
MaxLen     == 4     \* longest arbitrary byte buffer
MaxPayload == 2     \* longest payload of a well-formed frame
MaxTime    == 3     \* the clock stops advancing here
MaxBatches == 2     \* process_aircraft_data calls modelled

\* OptimizedKMZGenerator(persistence_time): 15 seconds by default, scaled down
PersistenceTime == 2

MaxCalls     == 2   \* process_aircraft_data calls followed statement by statement
MaxUpdates   == 1   \* update_filters calls
MaxThreads   == 1   \* _run_client threads alive at once
MaxReads     == 2   \* recv calls that return bytes of frames

\* FirehoseConfig.reconnect_delay, seconds
reconnect_delay == 5

----------------------------------------------------------------------------
(* DLEProtocol *)
DLE == 16
STX == 2
ETX == 3
Other == 65         \* a byte that is none of the three protocol bytes

Bytes == {DLE, STX, ETX, Other}

RECURSIVE SeqsUpTo(_, _)
SeqsUpTo(S, n) ==
    IF n = 0 THEN {<< >>}
    ELSE LET shorter == SeqsUpTo(S, n - 1)
         IN  shorter \cup {Append(s, x) : s \in shorter, x \in S}

\* unstuff_data: bytes(data), a copy
unstuff_data(data) == data

\* line 57: an escaped DLE consumes both input bytes
AfterEscapedDLE_One(j) == j + 1
AfterEscapedDLE(j) == j + 2

\* line 66: remaining_buffer.extend(buffer[i:])
SaveRemaining_FromFrameStart(buf, i) == SubSeq(buf, i + 2, Len(buf))
SaveRemaining(buf, i) == SubSeq(buf, i, Len(buf))

\* lines 58-60 dropping an escape byte that escapes nothing
KeepLoneDLE_Dropped(frame_data, buf, j) == frame_data

\* lines 58-60: DLE followed by neither ETX nor DLE: frame_data.append(
\* buffer[j]), the DLE itself; the byte after it is read on the next turn
KeepLoneDLE(frame_data, buf, j) == Append(frame_data, buf[j])

\* The inner while loop, lines 47-63, from index j with frame_data collected
\* so far.  found = the loop left by break (DLE ETX seen at j); otherwise the
\* loop ran out (the while's else clause).
RECURSIVE InnerScan(_, _, _)
InnerScan(buf, j, frame_data) ==
    IF j < Len(buf)
    THEN IF buf[j] = DLE
         THEN IF buf[j + 1] = ETX
              THEN [found |-> TRUE, frame_data |-> frame_data, i |-> j + 2]
              ELSE IF buf[j + 1] = DLE
                   THEN InnerScan(buf, AfterEscapedDLE(j), Append(frame_data, DLE))
                   ELSE InnerScan(buf, j + 1, KeepLoneDLE(frame_data, buf, j))
         ELSE InnerScan(buf, j + 1, Append(frame_data, buf[j]))
    ELSE [found |-> FALSE, frame_data |-> frame_data, i |-> j]

\* The outer while loop, lines 39-69, from index i with the frames found so
\* far.  open is the index of the start marker whose frame was found
\* incomplete (line 64-67), 0 when the loop ended without one.
RECURSIVE OuterScan(_, _, _)
OuterScan(buf, i, found) ==
    IF i < Len(buf)
    THEN IF buf[i] = DLE /\ buf[i + 1] = STX
         THEN LET r == InnerScan(buf, i + 2, << >>)
              IN  IF r.found
                  THEN OuterScan(buf, r.i, Append(found, unstuff_data(r.frame_data)))
                  ELSE [frames |-> found,
                        remaining_buffer |-> SaveRemaining(buf, i),
                        open |-> i]
         ELSE OuterScan(buf, i + 1, found)
    ELSE [frames |-> found, remaining_buffer |-> << >>, open |-> 0]

extract_frames(buf) == OuterScan(buf, 1, << >>)

----------------------------------------------------------------------------
(* The sender's side of the wire protocol: DLE STX, the payload with every  *)
(* DLE doubled, DLE ETX.  This is the input the framing claims quantify     *)
(* over, not code of the client.                                            *)
RECURSIVE Stuff(_)
Stuff(p) ==
    IF p = << >> THEN << >>
    ELSE (IF Head(p) = DLE THEN <<DLE, DLE>> ELSE <<Head(p)>>) \o Stuff(Tail(p))

Encode(p) == <<DLE, STX>> \o Stuff(p) \o <<DLE, ETX>>

RECURSIVE EncodeAll(_)
EncodeAll(ps) ==
    IF ps = << >> THEN << >> ELSE Encode(Head(ps)) \o EncodeAll(Tail(ps))

\* Frames whose payload holds an escape byte the sender did not double,
\* followed by a byte that is neither ETX nor DLE
Plain == Bytes \ {DLE}
LoneEscapePayloads ==
    {pre \o <<DLE, x>> \o post :
        x \in {STX, Other},
        pre \in SeqsUpTo(Plain, MaxPayload - 1),
        post \in SeqsUpTo(Plain, MaxPayload - 1)}
RawFrame(p) == <<DLE, STX>> \o p \o <<DLE, ETX>>
LoneEscapeStreams == {RawFrame(p) : p \in LoneEscapePayloads}

Payloads == SeqsUpTo(Bytes, MaxPayload)
\* well-formed streams of one frame and of two frames
PayloadLists == {<<p>> : p \in Payloads} \cup {<<p, q>> : p, q \in Payloads}
ValidStreams == {EncodeAll(ps) : ps \in PayloadLists}
Buffers == SeqsUpTo(Bytes, MaxLen)

NoResult == [frames |-> << >>, remaining_buffer |-> << >>, open |-> 0]

----------------------------------------------------------------------------
(* Records.  A decoded record is a Python dict: a function whose domain is  *)
(* the set of keys it carries.  aircraft.get(k) is None exactly when k is   *)
(* absent (a JSON null is not modelled apart from an absent key).           *)
None == "None"

Has(aircraft, k) == k \in DOMAIN aircraft
Get(aircraft, k, default) == IF Has(aircraft, k) THEN aircraft[k] ELSE default

Ids == <<"AC1", "AC2">>     \* keys of the decoded payload mapping, by position

Airborne(alt) ==
    [lat |-> 51, lon |-> 0, altitude |-> alt, is_on_ground |-> FALSE]
WithId(id, r) == [k \in DOMAIN r \cup {"adshex"} |->
                    IF k = "adshex" THEN id ELSE r[k]]

\* The records fed to the cache: one without an id field, accepted ones with
\* an id (two altitudes for one id), and one the filter rejects.
FeedRecords ==
    {Airborne(5000),
     WithId("AC1", Airborne(5000)), WithId("AC1", Airborne(6000)),
     WithId("AC2", Airborne(5000)),
     WithId("AC1", Airborne(50))}

\* aircraft_dict: the records in the mapping's order, the i-th under the key
\* Ids[i]: every single record, and every pair of records that carry an id
FeedPayloads ==
    {<<a>> : a \in FeedRecords}
    \cup {<<a, b>> : a, b \in {r \in FeedRecords : Has(r, "adshex")}}

----------------------------------------------------------------------------
(* DataProcessor *)

\* __init__, line 13, with the thresholds main.py passes (lines 24-25, 30-33)
InitFilters == [max_altitude |-> 10000, min_altitude |-> 100]

\* _passes_filters with the ground check ahead of the position check
PassesFilters_GroundFirst(aircraft, f) ==
    IF Get(aircraft, "is_on_ground", FALSE) THEN "ground"
    ELSE IF ~Has(aircraft, "lat") \/ ~Has(aircraft, "lon") THEN "no_position"
    ELSE IF ~Has(aircraft, "altitude") THEN "no_altitude"
    ELSE IF "min_altitude" \in DOMAIN f /\ aircraft["altitude"] < f["min_altitude"]
         THEN "low_altitude"
    ELSE IF "max_altitude" \in DOMAIN f /\ aircraft["altitude"] > f["max_altitude"]
         THEN "high_altitude"
    ELSE "pass"

\* _passes_filters rejecting an altitude equal to the minimum
PassesFilters_LowInclusive(aircraft, f) ==
    IF ~Has(aircraft, "lat") \/ ~Has(aircraft, "lon") THEN "no_position"
    ELSE IF Get(aircraft, "is_on_ground", FALSE) THEN "ground"
    ELSE IF ~Has(aircraft, "altitude") THEN "no_altitude"
    ELSE IF "min_altitude" \in DOMAIN f /\ aircraft["altitude"] <= f["min_altitude"]
         THEN "low_altitude"
    ELSE IF "max_altitude" \in DOMAIN f /\ aircraft["altitude"] > f["max_altitude"]
         THEN "high_altitude"
    ELSE "pass"

\* _passes_filters rejecting an altitude equal to the maximum
PassesFilters_MaxExclusive(aircraft, f) ==
    IF ~Has(aircraft, "lat") \/ ~Has(aircraft, "lon") THEN "no_position"
    ELSE IF Get(aircraft, "is_on_ground", FALSE) THEN "ground"
    ELSE IF ~Has(aircraft, "altitude") THEN "no_altitude"
    ELSE IF "min_altitude" \in DOMAIN f /\ aircraft["altitude"] < f["min_altitude"]
         THEN "low_altitude"
    ELSE IF "max_altitude" \in DOMAIN f /\ aircraft["altitude"] >= f["max_altitude"]
         THEN "high_altitude"
    ELSE "pass"

\* _passes_filters, lines 56-81: the check that rejects, or "pass"
PassesFilters(aircraft, f) ==
    IF ~Has(aircraft, "lat") \/ ~Has(aircraft, "lon") THEN "no_position"
    ELSE IF Get(aircraft, "is_on_ground", FALSE) THEN "ground"
    ELSE IF ~Has(aircraft, "altitude") THEN "no_altitude"
    ELSE IF "min_altitude" \in DOMAIN f /\ aircraft["altitude"] < f["min_altitude"]
         THEN "low_altitude"
    ELSE IF "max_altitude" \in DOMAIN f /\ aircraft["altitude"] > f["max_altitude"]
         THEN "high_altitude"
    ELSE "pass"

RECURSIVE SelectSeq2(_, _)
SelectSeq2(sq, f) ==
    IF sq = << >> THEN << >>
    ELSE (IF PassesFilters(Head(sq), f) = "pass" THEN <<Head(sq)>> ELSE << >>)
         \o SelectSeq2(Tail(sq), f)

Count(sq, f, verdict) ==
    Cardinality({i \in 1..Len(sq) : PassesFilters(sq[i], f) = verdict})

\* n/d percent cut to one decimal instead of rounded
RoundTenths_Floor(n, d) == (n * 1000) \div d

\* round(x, 1) of n/d percent, in tenths of a percent, ties to even
RoundTenths(n, d) ==
    LET q == (n * 1000) \div d
        r == (n * 1000) % d
    IN  IF 2 * r < d THEN q
        ELSE IF 2 * r > d THEN q + 1
        ELSE IF q % 2 = 0 THEN q ELSE q + 1

\* __init__, lines 14-22; filter_pass_rate is kept in tenths of a percent
InitStats ==
    [total_aircraft |-> 0, filtered_aircraft |-> 0, ground_filtered |-> 0,
     low_altitude_filtered |-> 0, payloads_processed |-> 0,
     filter_pass_rate |-> 0, current_filters |-> InitFilters]

\* process_aircraft_data, lines 31-44: the statistics after one batch
StatsAfter(st, records, f) ==
    LET total    == st.total_aircraft + Len(records)
        filtered == st.filtered_aircraft + Len(SelectSeq2(records, f))
    IN  [total_aircraft |-> total,
         filtered_aircraft |-> filtered,
         ground_filtered |-> st.ground_filtered + Count(records, f, "ground"),
         low_altitude_filtered |->
             st.low_altitude_filtered + Count(records, f, "low_altitude"),
         payloads_processed |-> st.payloads_processed + 1,
         filter_pass_rate |->
             IF total > 0 THEN RoundTenths(filtered, total) ELSE st.filter_pass_rate,
         current_filters |-> st.current_filters]

\* The same function statement by statement, as another thread sees it.

\* lines 31-33 counting one record whatever the size of the batch
CountBatch_One(st, records) ==
    [st EXCEPT !.payloads_processed = @ + 1, !.total_aircraft = @ + 1]

\* lines 31-33: payloads_processed += 1; total_aircraft += len(all_aircraft)
CountBatch(st, records) ==
    [st EXCEPT !.payloads_processed = @ + 1,
               !.total_aircraft = @ + Len(records)]

\* lines 64 and 74: the counter _passes_filters bumps on its way out
CountVerdict(st, verdict) ==
    IF verdict = "ground" THEN [st EXCEPT !.ground_filtered = @ + 1]
    ELSE IF verdict = "low_altitude"
         THEN [st EXCEPT !.low_altitude_filtered = @ + 1]
    ELSE st

\* lines 40-44: filtered_aircraft += len(filtered_aircraft); the pass rate
Tally(st, accepted) ==
    LET filtered == st.filtered_aircraft + Len(accepted)
    IN  [st EXCEPT !.filtered_aircraft = filtered,
                   !.filter_pass_rate =
                       IF st.total_aircraft > 0
                       THEN RoundTenths(filtered, st.total_aircraft)
                       ELSE @]

\* update_filters replacing the configuration instead of merging into it
Merge_Replace(f, new_filters) == new_filters

\* line 85, dict.update: keys of new_filters take their new value, the
\* others keep theirs
Merge(f, new_filters) ==
    [k \in DOMAIN f \cup DOMAIN new_filters |->
        IF k \in DOMAIN new_filters THEN new_filters[k] ELSE f[k]]

\* The records fed to the filter: every combination of coordinates present
\* or not, ground flag absent, false or true, altitude absent or a value on
\* either side of, or on, a threshold.
FieldValue(k, ground, alt) ==
    CASE k = "lat" -> 51
      [] k = "lon" -> 0
      [] k = "is_on_ground" -> ground
      [] k = "altitude" -> alt

PositionKeys == {{"lat", "lon"}, {"lat"}, {"lon"}}
GroundOptions == {[keys |-> {}, v |-> FALSE],
                  [keys |-> {"is_on_ground"}, v |-> FALSE],
                  [keys |-> {"is_on_ground"}, v |-> TRUE]}
AltitudeOptions == {[keys |-> {}, v |-> 0]}
                   \cup {[keys |-> {"altitude"}, v |-> a] :
                            a \in {50, 100, 10000, 20000}}

FilterRecords ==
    {[k \in pos \cup g.keys \cup a.keys |-> FieldValue(k, g.v, a.v)] :
        pos \in PositionKeys, g \in GroundOptions, a \in AltitudeOptions}

\* records that stand for each outcome when two share a batch
PairRecords ==
    {Airborne(100), Airborne(10000), Airborne(50),
     [lat |-> 51, lon |-> 0, altitude |-> 100, is_on_ground |-> TRUE],
     [lon |-> 0, altitude |-> 50, is_on_ground |-> TRUE]}

\* list(aircraft_dict.values()): the empty mapping, every single record,
\* every pair of the representative ones
FilterBatches ==
    {<< >>} \cup {<<a>> : a \in FilterRecords}
            \cup {<<a, b>> : a, b \in PairRecords}

\* the thresholds update_filters is called with
NewFilters == {[min_altitude |-> 10000], [max_altitude |-> 100]}

\* the consumers that can be registered: the cache update main.py wires in
\* (line 39) and one more
CallbackNames == {"update_aircraft_data", "other"}

NoUpdate == [n |-> 0, new |-> << >>, old |-> InitFilters]
NoCall == [stats |-> InitStats, filters |-> InitFilters, updates |-> 0]
NoCopy == [taken |-> FALSE, value |-> InitStats, call |-> NoCall,
           records |-> << >>, active |-> FALSE]

----------------------------------------------------------------------------
(* OptimizedKMZGenerator: the cache.  aircraft_database maps an id to a     *)
(* dict object; objects live in `heap` and are named by reference, because  *)
(* get_current_aircraft hands out the objects themselves (a shallow copy    *)
(* of the values list).                                                      *)
\* at most one object per id in the cache, as many in a held list, and the
\* one being created
Refs == 1..(2 * Len(Ids) + 1)
NoObj == [free |-> TRUE]
NoTime == 0 - 1             \* last_update_time = None

Keys(db) == {db[i].key : i \in 1..Len(db)}
RefsOf(db) == {db[i].ref : i \in 1..Len(db)}
Lookup(db, k) == db[CHOOSE i \in 1..Len(db) : db[i].key = k].ref

\* d[k] = v on an insertion-ordered dict: replace in place, or append
DictSet_Append(db, k, ref) == Append(db, [key |-> k, ref |-> ref])
DictSet(db, k, ref) ==
    IF k \in Keys(db)
    THEN [i \in 1..Len(db) |-> IF db[i].key = k THEN [key |-> k, ref |-> ref]
                                ELSE db[i]]
    ELSE Append(db, [key |-> k, ref |-> ref])

\* del d[k]
RECURSIVE DictDel(_, _)
DictDel(db, ks) ==
    IF db = << >> THEN << >>
    ELSE (IF Head(db).key \in ks THEN << >> ELSE <<Head(db)>>)
         \o DictDel(Tail(db), ks)

\* the field values of the cache, in order
Contents(db, h) == [i \in 1..Len(db) |-> h[db[i].ref]]
\* list(d.values()): the objects themselves
Values(db) == [i \in 1..Len(db) |-> db[i].ref]

Range(sq) == {sq[i] : i \in 1..Len(sq)}

\* References are names of dict objects, and which name an object has is
\* not observable.  Normalize renames them: the cache's objects become 1..n
\* in insertion order, then come the objects only the held list refers to;
\* objects that neither refers to are freed.  No object and no aliasing
\* changes.
Normalize(h, db, held) ==
    LET extra  == SelectSeq(held, LAMBDA r : r \notin RefsOf(db))
        order  == Values(db) \o extra
        Pos(r) == CHOOSE i \in 1..Len(order) : order[i] = r
    IN  [heap |-> [r \in Refs |-> IF r <= Len(order) THEN h[order[r]] ELSE NoObj],
         db   |-> [i \in 1..Len(db) |-> [key |-> db[i].key, ref |-> i]],
         snap |-> [i \in 1..Len(held) |-> Pos(held[i])]]

\* the heap, the cache and the held list after a step, references renamed
Renamed(n) ==
    /\ heap' = n.heap
    /\ aircraft_database' = n.db
    /\ snap' = n.snap

FreeRefs(h) == {r \in Refs : h[r] = NoObj}
NewRef(h) == CHOOSE r \in FreeRefs(h) : \A q \in FreeRefs(h) : r <= q

\* lines 38-48: minimal_aircraft (vert_rate, heading and speed are carried
\* the way lat and lon are)
MinimalAircraft(aircraft, now) ==
    [adshex |-> aircraft["adshex"],
     lat |-> Get(aircraft, "lat", None),
     lon |-> Get(aircraft, "lon", None),
     altitude |-> Get(aircraft, "altitude", 0),
     vert_rate |-> Get(aircraft, "vert_rate", 0),
     heading |-> Get(aircraft, "heading", None),
     speed |-> Get(aircraft, "speed", None),
     last_seen_timestamp |-> now,
     age_seconds |-> 0]

\* line 58: if age > self.persistence_time
Expired_AtWindow(age) == age >= PersistenceTime
Expired(age) == age > PersistenceTime

----------------------------------------------------------------------------
(* Codec: the stream arrives in two reads; each read is appended to         *)
(* self.buffer and _process_buffer runs extract_frames on it.               *)

\* FirehoseClient.__init__, lines 84-87, before any byte is received
CodecStart ==
    /\ phase = "start"
    /\ chunk = << >>
    /\ result = NoResult
    /\ buffer = << >>
    /\ frames = << >>

\* DataProcessor.__init__ (lines 13-23), OptimizedKMZGenerator.__init__
\* (lines 19-23), no call in progress and no list handed out
CacheStart ==
    /\ filters = InitFilters
    /\ stats = InitStats
    /\ clock = 0
    /\ lock = "none"
    /\ heap = [r \in Refs |-> NoObj]
    /\ aircraft_database = << >>
    /\ last_update_time = NoTime
    /\ pc = "idle"
    /\ payload = << >>
    /\ aircraft_list = << >>
    /\ idx = 1
    /\ current_time = 0
    /\ expired_aircraft = {}
    /\ before = << >>
    /\ committed = << >>
    /\ snap = << >>
    /\ seen = << >>
    /\ snapInfo = [taken |-> FALSE, time |-> 0, last_update |-> NoTime,
                   committed |-> << >>]

Threads == 1..MaxThreads
NoOutcome == [outcome |-> "none", waited |-> 0, stopped |-> FALSE]
NoAttempt == [after |-> "none", waited |-> 0]

\* DataProcessor.__init__ line 23, no call in progress, no copy handed out
ProcStart ==
    /\ fpc = "idle"
    /\ all_aircraft = << >>
    /\ fidx = 1
    /\ filtered_aircraft = << >>
    /\ callbacks = << >>
    /\ cbidx = 1
    /\ invoked = << >>
    /\ atCall = NoCall
    /\ upd = NoUpdate
    /\ statsCopy = NoCopy

\* FirehoseClient.__init__, lines 84-86, before start() is called
SessStart ==
    /\ running = FALSE
    /\ connected = FALSE
    /\ socket = None
    /\ tpc = [t \in Threads |-> "unborn"]
    /\ cpc = "idle"
    /\ prev = [t \in Threads |-> NoOutcome]
    /\ att = [t \in Threads |-> NoAttempt]
    /\ recv_data = [t \in Threads |-> << >>]
    /\ pending = [t \in Threads |-> << >>]
    /\ sockconn = 0
    /\ reads = 0
    /\ applied = << >>
    /\ timed_out = FALSE
    /\ authed = FALSE

CodecInit ==
    /\ stream \in Buffers \cup ValidStreams \cup LoneEscapeStreams
    /\ split \in 0..Len(stream)
    /\ CodecStart
    /\ CacheStart
    /\ ProcStart
    /\ SessStart

\* lines 150-151, 165: self.buffer.extend(data);
\* frames, self.buffer = DLEProtocol.extract_frames(self.buffer)
ProcessBuffer(received) ==
    LET buf == buffer \o received
        r   == extract_frames(buf)
    IN  /\ chunk' = buf
        /\ result' = r
        /\ buffer' = r.remaining_buffer
        /\ frames' = frames \o r.frames

FirstRead ==
    /\ phase = "start"
    /\ ProcessBuffer(SubSeq(stream, 1, split))
    /\ phase' = "first"
    /\ UNCHANGED <<procVars, sessVars, pipeVars>>
    /\ UNCHANGED <<stream, split, filterVars, cacheVars, ingestVars, readerVars>>

SecondRead ==
    /\ phase = "first"
    /\ ProcessBuffer(SubSeq(stream, split + 1, Len(stream)))
    /\ phase' = "done"
    /\ UNCHANGED <<procVars, sessVars, pipeVars>>
    /\ UNCHANGED <<stream, split, filterVars, cacheVars, ingestVars, readerVars>>

CodecNext == FirstRead \/ SecondRead

SpecCodec == CodecInit /\ [][CodecNext]_vars

----------------------------------------------------------------------------
(* Cache: the ingestion thread runs process_aircraft_data on decoded        *)
(* payloads, whose callback is update_aircraft_data (main.py line 39); a    *)
(* reader thread calls get_current_aircraft; time passes.                   *)

CacheInit ==
    /\ stream = << >>
    /\ split = 0
    /\ CodecStart
    /\ CacheStart
    /\ ProcStart
    /\ SessStart

\* process_aircraft_data, lines 29-47, up to the call of the callback
ProcessAircraftData(aircraft_dict) ==
    /\ pc = "idle"
    /\ stats.payloads_processed < MaxBatches
    /\ LET records  == aircraft_dict
           accepted == SelectSeq2(records, filters)
       IN  /\ stats' = StatsAfter(stats, records, filters)
           /\ aircraft_list' = accepted
           /\ pc' = IF accepted # << >> THEN "callback" ELSE "returned"
    /\ payload' = aircraft_dict
    /\ UNCHANGED <<procVars, sessVars, pipeVars>>
    /\ UNCHANGED <<codecVars, filters, cacheVars, idx, current_time,
                   expired_aircraft, before, committed, readerVars>>

\* update_aircraft_data, lines 27-29: take the lock, read the clock
UpdateBegin ==
    /\ pc = "callback"
    /\ lock = "none"
    /\ lock' = "ingest"
    /\ current_time' = clock
    /\ last_update_time' = clock
    /\ idx' = 1
    /\ before' = Contents(aircraft_database, heap)
    /\ pc' = "upsert"
    /\ UNCHANGED <<procVars, sessVars, pipeVars>>
    /\ UNCHANGED <<codecVars, filterVars, clock, heap, aircraft_database,
                   payload, aircraft_list, expired_aircraft, committed,
                   readerVars>>

\* lines 32-50: one iteration of the for loop over aircraft_list
UpdateUpsert ==
    /\ pc = "upsert"
    /\ idx <= Len(aircraft_list)
    /\ LET aircraft    == aircraft_list[idx]
           aircraft_id == Get(aircraft, "adshex", None)
       IN  IF aircraft_id = None \/ aircraft_id = ""
           THEN UNCHANGED <<heap, aircraft_database, snap>>
           ELSE /\ FreeRefs(heap) # {}
                /\ LET ref == NewRef(heap)
                       db  == DictSet(aircraft_database, aircraft_id, ref)
                       h   == [heap EXCEPT
                                 ![ref] = MinimalAircraft(aircraft, current_time)]
                   IN  Renamed(Normalize(h, db, snap))
    /\ idx' = idx + 1
    /\ UNCHANGED <<procVars, sessVars, pipeVars>>
    /\ UNCHANGED <<codecVars, filterVars, clock, lock, last_update_time, pc,
                   payload, aircraft_list, current_time, expired_aircraft,
                   before, committed, seen, snapInfo>>

\* lines 53-59: recompute every age in place, collect the expired ids
UpdateSweep ==
    /\ pc = "upsert"
    /\ idx > Len(aircraft_list)
    /\ heap' = [r \in Refs |->
                  IF r \in RefsOf(aircraft_database)
                  THEN [heap[r] EXCEPT !.age_seconds =
                            current_time - heap[r].last_seen_timestamp]
                  ELSE heap[r]]
    /\ expired_aircraft' =
          {k \in Keys(aircraft_database) :
              Expired(current_time
                      - heap[Lookup(aircraft_database, k)].last_seen_timestamp)}
    /\ pc' = "evict"
    /\ UNCHANGED <<procVars, sessVars, pipeVars>>
    /\ UNCHANGED <<codecVars, filterVars, clock, lock, aircraft_database,
                   last_update_time, payload, aircraft_list, idx, current_time,
                   before, committed, readerVars>>

\* lines 61-62 and the end of the with block: delete, release the lock,
\* return to process_aircraft_data
UpdateEvict ==
    /\ pc = "evict"
    /\ LET n == Normalize(heap, DictDel(aircraft_database, expired_aircraft), snap)
       IN  /\ Renamed(n)
           /\ committed' = Contents(n.db, n.heap)
    /\ expired_aircraft' = {}
    /\ lock' = "none"
    /\ pc' = "returned"
    /\ UNCHANGED <<procVars, sessVars, pipeVars>>
    /\ UNCHANGED <<codecVars, filterVars, clock, last_update_time, payload,
                   aircraft_list, idx, current_time, before, seen, snapInfo>>

\* data_processor.py line 54: return filtered_aircraft; the locals of the
\* call are gone
ProcessReturn ==
    /\ pc = "returned"
    /\ pc' = "idle"
    /\ payload' = << >>
    /\ aircraft_list' = << >>
    /\ idx' = 1
    /\ current_time' = 0
    /\ before' = << >>
    /\ UNCHANGED <<procVars, sessVars, pipeVars>>
    /\ UNCHANGED <<codecVars, filterVars, cacheVars, expired_aircraft,
                   committed, readerVars>>

\* lines 64-67 without the lock: the same copy, taken at any moment
GetCurrentAircraft_NoLock ==
    /\ Renamed(Normalize(heap, aircraft_database, Values(aircraft_database)))
    /\ seen' = Contents(aircraft_database, heap)
    /\ snapInfo' = [taken |-> TRUE, time |-> clock,
                    last_update |-> last_update_time, committed |-> committed]
    /\ UNCHANGED <<procVars, sessVars, pipeVars>>
    /\ UNCHANGED <<codecVars, filterVars, clock, lock, last_update_time,
                   ingestVars>>

\* get_current_aircraft, lines 64-67: with self._lock, list(values()); the
\* list is new, its elements are the cache's own dict objects
GetCurrentAircraft ==
    /\ lock = "none"
    /\ Renamed(Normalize(heap, aircraft_database, Values(aircraft_database)))
    /\ seen' = Contents(aircraft_database, heap)
    /\ snapInfo' = [taken |-> TRUE, time |-> clock,
                    last_update |-> last_update_time, committed |-> committed]
    /\ UNCHANGED <<procVars, sessVars, pipeVars>>
    /\ UNCHANGED <<codecVars, filterVars, clock, lock, last_update_time,
                   ingestVars>>

\* time.time() advances
Tick ==
    /\ clock < MaxTime
    /\ clock' = clock + 1
    /\ UNCHANGED <<procVars, sessVars, pipeVars>>
    /\ UNCHANGED <<codecVars, filterVars, lock, heap, aircraft_database,
                   last_update_time, ingestVars, readerVars>>

CacheNext ==
    \/ \E p \in FeedPayloads : ProcessAircraftData(p)
    \/ UpdateBegin
    \/ UpdateUpsert
    \/ UpdateSweep
    \/ UpdateEvict
    \/ ProcessReturn
    \/ GetCurrentAircraft
    \/ Tick

SpecCache == CacheInit /\ [][CacheNext]_vars

----------------------------------------------------------------------------
(* Filter: process_aircraft_data one statement at a time, the consumers it  *)
(* notifies, update_filters, and a status thread that calls get_stats.      *)
(* DataProcessor holds no lock, so the steps of one thread interleave with  *)
(* the calls of another.                                                     *)

otherThanProc == <<codecVars, cacheVars, ingestVars, readerVars, sessVars,
                   pipeVars>>

FilterInit ==
    /\ stream = << >>
    /\ split = 0
    /\ CodecStart
    /\ CacheStart
    /\ ProcStart
    /\ SessStart

\* add_callback, lines 25-27; main.py registers its consumers while wiring
\* the system (line 39), before any payload is processed; each consumer is
\* registered once
AddCallback(callback) ==
    /\ fpc = "idle"
    /\ stats.payloads_processed = 0
    /\ callback \notin Range(callbacks)
    /\ callbacks' = Append(callbacks, callback)
    /\ UNCHANGED <<fpc, all_aircraft, fidx, filtered_aircraft, cbidx, invoked,
                   atCall, upd, statsCopy, filterVars, otherThanProc>>

\* process_aircraft_data, lines 31-35
FilterBegin(aircraft_dict) ==
    /\ fpc = "idle"
    /\ stats.payloads_processed < MaxCalls
    /\ atCall' = [stats |-> stats, filters |-> filters, updates |-> upd.n]
    /\ all_aircraft' = aircraft_dict
    /\ stats' = CountBatch(stats, aircraft_dict)
    /\ filtered_aircraft' = << >>
    /\ fidx' = 1
    /\ fpc' = "filter"
    /\ UNCHANGED <<filters, callbacks, cbidx, invoked, upd, statsCopy,
                   otherThanProc>>

\* lines 36-38: one iteration, _passes_filters included
FilterRecord ==
    /\ fpc = "filter"
    /\ fidx <= Len(all_aircraft)
    /\ LET aircraft == all_aircraft[fidx]
           verdict  == PassesFilters(aircraft, filters)
       IN  /\ stats' = CountVerdict(stats, verdict)
           /\ filtered_aircraft' = IF verdict = "pass"
                                   THEN Append(filtered_aircraft, aircraft)
                                   ELSE filtered_aircraft
    /\ fidx' = fidx + 1
    /\ UNCHANGED <<fpc, all_aircraft, filters, callbacks, cbidx, invoked,
                   atCall, upd, statsCopy, otherThanProc>>

\* lines 40-47: the loop is over; the counters, then the test that guards
\* the notification
FilterTally ==
    /\ fpc = "filter"
    /\ fidx > Len(all_aircraft)
    /\ stats' = Tally(stats, filtered_aircraft)
    /\ cbidx' = 1
    /\ fpc' = IF filtered_aircraft # << >> /\ callbacks # << >>
              THEN "notify" ELSE "done"
    /\ UNCHANGED <<all_aircraft, fidx, filtered_aircraft, filters, callbacks,
                   invoked, atCall, upd, statsCopy, otherThanProc>>

\* lines 48-50 without the try: an exception leaves process_aircraft_data
Notify_NoTry(raises) ==
    /\ fpc = "notify"
    /\ cbidx <= Len(callbacks)
    /\ invoked' = Append(invoked, [callback |-> callbacks[cbidx],
                                   arg |-> filtered_aircraft,
                                   raised |-> raises])
    /\ cbidx' = cbidx + 1
    /\ fpc' = IF raises THEN "raised"
              ELSE IF cbidx = Len(callbacks) THEN "done" ELSE "notify"
    /\ UNCHANGED <<all_aircraft, fidx, filtered_aircraft, filterVars,
                   callbacks, atCall, upd, statsCopy, otherThanProc>>

\* lines 48-52: one iteration; the consumer returns or raises, and an
\* exception is caught and printed
Notify(raises) ==
    /\ fpc = "notify"
    /\ cbidx <= Len(callbacks)
    /\ invoked' = Append(invoked, [callback |-> callbacks[cbidx],
                                   arg |-> filtered_aircraft,
                                   raised |-> raises])
    /\ cbidx' = cbidx + 1
    /\ fpc' = IF cbidx = Len(callbacks) THEN "done" ELSE "notify"
    /\ UNCHANGED <<all_aircraft, fidx, filtered_aircraft, filterVars,
                   callbacks, atCall, upd, statsCopy, otherThanProc>>

\* line 54: return filtered_aircraft; the locals of the call are gone
FilterReturn ==
    /\ fpc = "done"
    /\ fpc' = "idle"
    /\ all_aircraft' = << >>
    /\ filtered_aircraft' = << >>
    /\ fidx' = 1
    /\ cbidx' = 1
    /\ invoked' = << >>
    /\ atCall' = NoCall
    /\ UNCHANGED <<filterVars, callbacks, upd, statsCopy, otherThanProc>>

\* update_filters, lines 83-86, called from any thread at any moment
UpdateFilters(new_filters) ==
    /\ upd.n < MaxUpdates
    /\ filters' = Merge(filters, new_filters)
    /\ stats' = [stats EXCEPT !.current_filters = Merge(filters, new_filters)]
    /\ upd' = [n |-> upd.n + 1, new |-> new_filters, old |-> filters]
    /\ UNCHANGED <<fpc, all_aircraft, fidx, filtered_aircraft, callbacks,
                   cbidx, invoked, atCall, statsCopy, otherThanProc>>

\* get_stats, lines 88-90, as get_system_status calls it (main.py line 87):
\* a copy of the dict as it is at this moment
GetStats ==
    /\ statsCopy' = [taken |-> TRUE, value |-> stats, call |-> atCall,
                     records |-> all_aircraft, active |-> fpc # "idle"]
    /\ UNCHANGED <<fpc, all_aircraft, fidx, filtered_aircraft, callbacks,
                   cbidx, invoked, atCall, upd, filterVars, otherThanProc>>

FilterNext ==
    \/ \E c \in CallbackNames : AddCallback(c)
    \/ \E b \in FilterBatches : FilterBegin(b)
    \/ FilterRecord
    \/ FilterTally
    \/ \E raises \in BOOLEAN : Notify(raises)
    \/ FilterReturn
    \/ \E f \in NewFilters : UpdateFilters(f)

SpecFilter == FilterInit /\ [][FilterNext]_vars

\* The status thread beside the ingestion thread: batches of two records,
\* no consumer registered.
StatsBatches == {<<a, b>> : a, b \in PairRecords}

StatsNext ==
    \/ \E b \in StatsBatches : FilterBegin(b)
    \/ FilterRecord
    \/ FilterTally
    \/ FilterReturn
    \/ GetStats

SpecStats == FilterInit /\ [][StatsNext]_vars

----------------------------------------------------------------------------
(* Session: start() and stop() called by one controlling thread, and the    *)
(* _run_client threads start() creates.  A thread that has ended frees its  *)
(* place for the next one.  What a thread receives is noise between frames, *)
(* so that _process_buffer finds no frame to hand on.                        *)

otherThanSess == <<filterVars, cacheVars, ingestVars, readerVars, procVars>>

SessionInit ==
    /\ stream = << >>
    /\ split = 0
    /\ CodecStart
    /\ CacheStart
    /\ ProcStart
    /\ SessStart

\* Connections are told apart by a tag: the number of reads that returned
\* bytes before the connection was made, plus one. Two connections carry
\* the same tag only when no byte was received between their making.
Connections == 1..(MaxReads + 1)
NextConnection(n) == n + 1

FreeThreads == {t \in DOMAIN tpc : tpc[t] \in {"unborn", "exited"}}

\* how an attempt of thread t ended: stop counts as requested when running
\* is already false
Ended(t, how) ==
    [prev EXCEPT ![t] = [outcome |-> how, waited |-> 0, stopped |-> ~running]]

\* start(), lines 91-92: the test of self.running when it is false (when it
\* is true the call returns at once and changes nothing)
StartCheck ==
    /\ UNCHANGED pipeVars
    /\ cpc = "idle"
    /\ ~running
    /\ FreeThreads # {}
    /\ cpc' = "start_set"
    /\ UNCHANGED <<running, connected, socket, tpc, prev, att, codecVars,
                   otherThanSess>>

\* start(), lines 94-96: self.running = True; the thread is created and
\* started
StartSet ==
    /\ UNCHANGED pipeVars
    /\ cpc = "start_set"
    /\ running' = TRUE
    /\ LET t == CHOOSE u \in FreeThreads : \A v \in FreeThreads : u <= v
       IN  /\ tpc' = [tpc EXCEPT ![t] = "loop"]
           /\ prev' = [prev EXCEPT ![t] = NoOutcome]
           /\ att' = [att EXCEPT ![t] = NoAttempt]
    /\ cpc' = "idle"
    /\ UNCHANGED <<connected, socket, codecVars, otherThanSess>>

\* stop(), line 101: self.running = False
StopClear ==
    /\ UNCHANGED pipeVars
    /\ cpc = "idle"
    /\ running' = FALSE
    /\ prev' = [t \in DOMAIN prev |-> [prev[t] EXCEPT !.stopped = TRUE]]
    /\ cpc' = "stop_close"
    /\ UNCHANGED <<connected, socket, tpc, att, codecVars, otherThanSess>>

\* stop(), lines 102-106: close the socket if there is one
StopClose ==
    /\ UNCHANGED pipeVars
    /\ cpc = "stop_close"
    /\ socket' = IF socket # None THEN "closed" ELSE socket
    /\ cpc' = "idle"
    /\ UNCHANGED <<running, connected, tpc, prev, att, codecVars,
                   otherThanSess>>

\* _run_client looping whatever self.running says
LoopTest_Always(t) ==
    /\ UNCHANGED pipeVars
    /\ tpc[t] = "loop"
    /\ tpc' = [tpc EXCEPT ![t] = "connect"]
    /\ UNCHANGED <<running, connected, socket, cpc, prev, att, codecVars,
                   otherThanSess>>

\* _run_client giving up once an attempt has failed
LoopTest_GiveUp(t) ==
    /\ UNCHANGED pipeVars
    /\ tpc[t] = "loop"
    /\ tpc' = [tpc EXCEPT ![t] = IF running /\ prev[t].outcome # "failed"
                                 THEN "connect" ELSE "exited"]
    /\ UNCHANGED <<running, connected, socket, cpc, prev, att, codecVars,
                   otherThanSess>>

\* _run_client, line 111: while self.running
LoopTest(t) ==
    /\ UNCHANGED pipeVars
    /\ tpc[t] = "loop"
    /\ tpc' = [tpc EXCEPT ![t] = IF running THEN "connect" ELSE "exited"]
    /\ UNCHANGED <<running, connected, socket, cpc, prev, att, codecVars,
                   otherThanSess>>

\* _connect_and_run, lines 122-124: a connection attempt begins with the
\* call of create_connection
ConnectBegin(t) ==
    /\ UNCHANGED pipeVars
    /\ tpc[t] = "connect"
    /\ att' = [att EXCEPT ![t] = [after |-> prev[t].outcome,
                                  waited |-> prev[t].waited]]
    /\ prev' = [prev EXCEPT ![t] = NoOutcome]
    /\ tpc' = [tpc EXCEPT ![t] = "connecting"]
    /\ UNCHANGED <<running, connected, socket, cpc, codecVars, otherThanSess>>

\* lines 124-127: create_connection or wrap_socket raises, or self.socket
\* is the new transport
Connect(t, how) ==
    /\ tpc[t] = "connecting"
    /\ IF how = "ok"
       THEN /\ socket' = "open"
            /\ sockconn' = NextConnection(reads)
            /\ authed' = FALSE
            /\ prev' = prev
            /\ tpc' = [tpc EXCEPT ![t] = "auth"]
       ELSE /\ socket' = socket
            /\ sockconn' = sockconn
            /\ authed' = authed
            /\ prev' = Ended(t, "failed")
            /\ tpc' = [tpc EXCEPT ![t] = "except"]
    /\ UNCHANGED <<running, connected, cpc, att, codecVars, otherThanSess>>
    /\ UNCHANGED <<recv_data, pending, reads, applied, timed_out>>

\* lines 130-140: send the credentials; on success self.connected = True
\* and self.buffer.clear(); a send on a closed socket raises
Authenticate(t, how) ==
    /\ UNCHANGED <<recv_data, pending, sockconn, reads, applied, timed_out>>
    /\ tpc[t] = "auth"
    /\ socket = "closed" => how # "ok"
    /\ authed' = (authed \/ how = "ok")
    /\ IF how = "ok"
       THEN /\ connected' = TRUE
            /\ buffer' = << >>
            /\ prev' = prev
            /\ tpc' = [tpc EXCEPT ![t] = "while"]
       ELSE /\ UNCHANGED <<connected, buffer>>
            /\ prev' = Ended(t, "failed")
            /\ tpc' = [tpc EXCEPT ![t] = "except"]
    /\ UNCHANGED <<running, socket, cpc, att, stream, split, phase, chunk,
                   result, frames, otherThanSess>>

\* line 143: while self.running and self.connected
WhileTest(t) ==
    /\ UNCHANGED pipeVars
    /\ tpc[t] = "while"
    /\ tpc' = [tpc EXCEPT ![t] = IF running /\ connected
                                 THEN "recv" ELSE "cleanup"]
    /\ UNCHANGED <<running, connected, socket, cpc, prev, att, codecVars,
                   otherThanSess>>

\* a timeout taken by the general except clause: the loop is left
Recv_TimeoutFatal(t, how) ==
    /\ tpc[t] = "recv"
    /\ socket = "closed" => how = "error"
    /\ connected' = IF how = "timeout" THEN FALSE ELSE connected
    /\ IF how \in {"data", "timeout"}
       THEN /\ prev' = prev
            /\ tpc' = [tpc EXCEPT ![t] = "while"]
       ELSE /\ prev' = Ended(t, "lost")
            /\ tpc' = [tpc EXCEPT ![t] = "cleanup"]
    /\ UNCHANGED <<running, socket, cpc, att, codecVars, otherThanSess>>

\* lines 144-157: recv returns bytes, times out, returns nothing (the
\* server closed) or raises; on a closed socket it raises
Recv(t, how) ==
    /\ tpc[t] = "recv"
    /\ socket = "closed" => how = "error"
    /\ IF how = "data"
       THEN ProcessBuffer(<<Other>>)
       ELSE UNCHANGED <<chunk, result, buffer, frames>>
    /\ IF how \in {"data", "timeout"}
       THEN /\ prev' = prev
            /\ tpc' = [tpc EXCEPT ![t] = "while"]
       ELSE /\ prev' = Ended(t, "lost")
            /\ tpc' = [tpc EXCEPT ![t] = "cleanup"]
    /\ UNCHANGED <<running, connected, socket, cpc, att, stream, split,
                   phase, otherThanSess>>

\* lines 159-161: self.connected = False; close the socket; the function
\* returns to the loop of _run_client
Cleanup(t) ==
    /\ UNCHANGED pipeVars
    /\ tpc[t] = "cleanup"
    /\ connected' = FALSE
    /\ socket' = IF socket # None THEN "closed" ELSE socket
    /\ tpc' = [tpc EXCEPT ![t] = "loop"]
    /\ UNCHANGED <<running, cpc, prev, att, codecVars, otherThanSess>>

\* _run_client, lines 114-117: the exception of _connect_and_run is caught
Except(t) ==
    /\ UNCHANGED pipeVars
    /\ tpc[t] = "except"
    /\ tpc' = [tpc EXCEPT ![t] = IF running THEN "sleep" ELSE "loop"]
    /\ UNCHANGED <<running, connected, socket, cpc, prev, att, codecVars,
                   otherThanSess>>

\* line 118: time.sleep(self.config.reconnect_delay) returns
Sleep(t) ==
    /\ UNCHANGED pipeVars
    /\ tpc[t] = "sleep"
    /\ prev' = [prev EXCEPT ![t].waited = @ + reconnect_delay]
    /\ tpc' = [tpc EXCEPT ![t] = "loop"]
    /\ UNCHANGED <<running, connected, socket, cpc, att, codecVars,
                   otherThanSess>>

ConnectOutcomes == {"ok", "refused", "tls_failed"}
SendOutcomes == {"ok", "send_failed"}
RecvOutcomes == {"data", "timeout", "closed_by_server", "error"}

\* the steps of one _run_client thread
ThreadStep(t) ==
    \/ LoopTest(t)
    \/ ConnectBegin(t)
    \/ \E how \in ConnectOutcomes : Connect(t, how)
    \/ \E how \in SendOutcomes : Authenticate(t, how)
    \/ WhileTest(t)
    \/ \E how \in RecvOutcomes : Recv(t, how) /\ UNCHANGED pipeVars
    \/ Cleanup(t)
    \/ Except(t)
    \/ Sleep(t)

SessionNext ==
    \/ StartCheck
    \/ StartSet
    \/ StopClear
    \/ StopClose
    \/ \E t \in Threads : ThreadStep(t)

SpecSession == SessionInit /\ [][SessionNext]_vars

\* A started thread keeps running and every blocking call returns
\* (create_connection, send, recv with its timeout, sleep)
SpecSessionFair ==
    SpecSession /\ \A t \in Threads : WF_vars(ThreadStep(t))

----------------------------------------------------------------------------
(* The read loop frame by frame: recv, buffer.extend, extract_frames, and   *)
(* for every frame the decoding, process_aircraft_data and the cache        *)
(* update, all on the _run_client thread that read the bytes.               *)

GZ1 == 31           \* 0x1f
GZ2 == 139          \* 0x8b

\* the payload byte the server sends on connection c
ConnByte(c) == Other + c - 1
ConnBytes == {ConnByte(c) : c \in Connections}

\* The two batches the feed carries: one accepted aircraft each
BatchA == <<WithId(Ids[1], Airborne(5000))>>
BatchB == <<WithId(Ids[2], Airborne(5000))>>

\* json.loads(text.decode()) on the texts of the feed: a mapping of
\* aircraft, the empty mapping, a value that is no mapping, or a ValueError
Parse(text) ==
    IF Len(text) = 1 /\ text[1] \in ConnBytes
    THEN [kind |-> "mapping", batch |-> BatchA]
    ELSE IF Len(text) = 2 /\ text[1] \in ConnBytes /\ text[2] = text[1]
    THEN [kind |-> "mapping", batch |-> BatchB]
    ELSE IF text = <<ETX>>
    THEN [kind |-> "empty", batch |-> << >>]
    ELSE IF text = <<STX, STX>>
    THEN [kind |-> "not_mapping", batch |-> << >>]
    ELSE [kind |-> "parse_error", batch |-> << >>]

\* line 170, then gzip.decompress (it raises on a stream that is only the
\* magic number; otherwise the text is what follows it) and json.loads
Decode(frame) ==
    IF Len(frame) >= 2 /\ frame[1] = GZ1 /\ frame[2] = GZ2
    THEN IF Len(frame) = 2
         THEN [kind |-> "gzip_error", batch |-> << >>]
         ELSE Parse(SubSeq(frame, 3, Len(frame)))
    ELSE Parse(frame)

\* the results for which process_aircraft_data is never called: an
\* exception before the call, or a falsy / empty value
DropKinds == {"gzip_error", "parse_error", "empty"}

\* What one recv can return on connection c: a frame that fails to parse
\* followed by a good one; a frame that fails to decompress, an empty
\* mapping and a good frame; the start of a frame; the end of a frame; a
\* frame holding a value that is not a mapping
Chunks(c) ==
    LET P == ConnByte(c)
    IN  { RawFrame(<<STX>>) \o RawFrame(<<P>>),
          RawFrame(<<GZ1, GZ2>>) \o RawFrame(<<ETX>>) \o RawFrame(<<P, P>>),
          <<DLE, STX, P>>,
          <<P, DLE, ETX>>,
          RawFrame(<<STX, STX>>) }

\* line 145: recv returns bytes of the connection self.socket refers to
RecvData(t) ==
    /\ tpc[t] = "recv"
    /\ socket = "open"
    /\ authed
    /\ reads < MaxReads
    /\ \E d \in Chunks(sockconn) : recv_data' = [recv_data EXCEPT ![t] = d]
    /\ reads' = reads + 1
    /\ timed_out' = FALSE
    /\ tpc' = [tpc EXCEPT ![t] = "extend"]
    /\ UNCHANGED <<running, connected, socket, cpc, prev, att, codecVars,
                   otherThanSess, pending, sockconn, applied, authed>>

\* lines 150 and 165: self.buffer.extend(data);
\* frames, self.buffer = DLEProtocol.extract_frames(self.buffer)
Extend(t) ==
    /\ tpc[t] = "extend"
    /\ ProcessBuffer(recv_data[t])
    /\ pending' = [pending EXCEPT ![t] = result'.frames]
    /\ recv_data' = [recv_data EXCEPT ![t] = << >>]
    /\ tpc' = [tpc EXCEPT ![t] = "frame"]
    /\ UNCHANGED <<running, connected, socket, cpc, prev, att, stream, split,
                   phase, otherThanSess, sockconn, reads, applied, timed_out,
                   authed>>

\* a frame whose exception leaves _process_buffer: the read loop's except
\* Exception takes it and breaks
HandleFrame_Abort(t) ==
    /\ tpc[t] = "frame"
    /\ pending[t] # << >>
    /\ IF Decode(Head(pending[t])).kind \in DropKinds
       THEN /\ pending' = [pending EXCEPT ![t] = << >>]
            /\ tpc' = [tpc EXCEPT ![t] = "cleanup"]
       ELSE /\ pending' = [pending EXCEPT ![t] = Tail(@)]
            /\ tpc' = tpc
    /\ UNCHANGED <<running, connected, socket, cpc, prev, att, codecVars,
                   otherThanSess, recv_data, sockconn, reads, applied,
                   timed_out, authed>>

\* lines 167-186, one iteration of the for loop, up to the call of the
\* callback inside process_aircraft_data (data_processor.py lines 29-47):
\* an exception or a falsy value ends the iteration; a value that is no
\* mapping is counted (line 31) before .values() raises; a mapping is
\* counted, filtered and handed to update_aircraft_data (main.py line 39)
HandleFrame(t) ==
    /\ tpc[t] = "frame"
    /\ pending[t] # << >>
    /\ LET d == Decode(Head(pending[t]))
       IN  CASE d.kind \in DropKinds ->
                  /\ pending' = [pending EXCEPT ![t] = Tail(@)]
                  /\ UNCHANGED <<tpc, stats, pc, payload, aircraft_list,
                                 applied>>
             [] d.kind = "not_mapping" ->
                  /\ stats' = [stats EXCEPT !.payloads_processed = @ + 1]
                  /\ pending' = [pending EXCEPT ![t] = Tail(@)]
                  /\ UNCHANGED <<tpc, pc, payload, aircraft_list, applied>>
             [] d.kind = "mapping" ->
                  /\ pc = "idle"
                  /\ LET accepted == SelectSeq2(d.batch, filters)
                     IN  /\ stats' = StatsAfter(stats, d.batch, filters)
                         /\ aircraft_list' = accepted
                         /\ pc' = IF accepted # << >>
                                  THEN "callback" ELSE "returned"
                         /\ applied' = IF accepted # << >>
                                       THEN Append(applied, accepted)
                                       ELSE applied
                  /\ payload' = d.batch
                  /\ tpc' = [tpc EXCEPT ![t] = "in_call"]
                  /\ pending' = pending
    /\ UNCHANGED <<sessVarsButTpc, codecVars, filters, cacheVars, idx,
                   current_time, expired_aircraft, before, committed,
                   readerVars, procVars, recv_data, sockconn, reads,
                   timed_out, authed>>

\* data_processor.py line 54 and the end of the iteration: the call
\* returns and the for loop moves to the next frame
FrameDone(t) ==
    /\ tpc[t] = "in_call"
    /\ pc = "returned"
    /\ pc' = "idle"
    /\ payload' = << >>
    /\ aircraft_list' = << >>
    /\ idx' = 1
    /\ current_time' = 0
    /\ before' = << >>
    /\ pending' = [pending EXCEPT ![t] = Tail(@)]
    /\ tpc' = [tpc EXCEPT ![t] = "frame"]
    /\ UNCHANGED <<sessVarsButTpc, codecVars, filterVars, cacheVars,
                   expired_aircraft, committed, readerVars, procVars,
                   recv_data, sockconn, reads, applied, timed_out,
                   authed>>

\* the for loop is over: _process_buffer returns to the while test
FramesDone(t) ==
    /\ tpc[t] = "frame"
    /\ pending[t] = << >>
    /\ tpc' = [tpc EXCEPT ![t] = "while"]
    /\ UNCHANGED <<sessVarsButTpc, codecVars, otherThanSess, pipeVars>>

\* a read that returns no frame bytes: it times out, the server closes, or
\* it raises
QuietOutcomes == {"timeout", "closed_by_server", "error"}

\* lines 145-157 when recv returns no bytes of frames, with the note that
\* a read has timed out
RecvQuiet(t, how) ==
    /\ Recv(t, how)
    /\ timed_out' = (timed_out \/ how = "timeout")
    /\ UNCHANGED <<recv_data, pending, sockconn, reads, applied, authed>>

\* the steps of one _run_client thread that decodes what it reads
ReaderStep(t) ==
    \/ LoopTest(t)
    \/ ConnectBegin(t)
    \/ \E how \in ConnectOutcomes : Connect(t, how)
    \/ \E how \in SendOutcomes : Authenticate(t, how)
    \/ WhileTest(t)
    \/ \E how \in QuietOutcomes : RecvQuiet(t, how)
    \/ RecvData(t)
    \/ Extend(t)
    \/ HandleFrame(t)
    \/ FrameDone(t)
    \/ FramesDone(t)
    \/ Cleanup(t)
    \/ Except(t)
    \/ Sleep(t)

\* update_aircraft_data running inside the call HandleFrame began
UpdateStep ==
    \/ UpdateBegin
    \/ UpdateUpsert
    \/ UpdateSweep
    \/ UpdateEvict

IngestNext ==
    \/ StartCheck
    \/ StartSet
    \/ StopClear
    \/ StopClose
    \/ \E t \in DOMAIN tpc : ReaderStep(t)
    \/ UpdateStep

\* start() is called only when no _run_client thread is alive: one thread
\* slot, whatever the number of slots of the other specifications
OneLoop == {t \in Threads : \A u \in Threads : t <= u}

SessStartOver(T) ==
    /\ running = FALSE
    /\ connected = FALSE
    /\ socket = None
    /\ tpc = [t \in T |-> "unborn"]
    /\ cpc = "idle"
    /\ prev = [t \in T |-> NoOutcome]
    /\ att = [t \in T |-> NoAttempt]
    /\ recv_data = [t \in T |-> << >>]
    /\ pending = [t \in T |-> << >>]
    /\ sockconn = 0
    /\ reads = 0
    /\ applied = << >>
    /\ timed_out = FALSE
    /\ authed = FALSE

IngestInit ==
    /\ stream = << >>
    /\ split = 0
    /\ CodecStart
    /\ CacheStart
    /\ ProcStart
    /\ SessStartOver(OneLoop)

SpecIngest == IngestInit /\ [][IngestNext]_vars

\* The run in which start() is called again while the thread of the
\* first call lives: the server accepts every connection and the
\* credentials, and a read returns bytes, times out or raises
RestartStep(t) ==
    \/ LoopTest(t)
    \/ ConnectBegin(t)
    \/ Connect(t, "ok")
    \/ Authenticate(t, "ok")
    \/ WhileTest(t)
    \/ Recv(t, "timeout") /\ UNCHANGED pipeVars
    \/ Recv(t, "error") /\ UNCHANGED pipeVars
    \/ RecvData(t)
    \/ Extend(t)
    \/ HandleFrame(t)
    \/ FrameDone(t)
    \/ FramesDone(t)
    \/ Cleanup(t)

RestartNext ==
    \/ StartCheck
    \/ StartSet
    \/ StopClear
    \/ StopClose
    \/ \E t \in DOMAIN tpc : RestartStep(t)
    \/ UpdateStep

\* room for the thread of a second start() while the first thread lives
Loops == 1..(MaxThreads + 1)

RestartInit ==
    /\ stream = << >>
    /\ split = 0
    /\ CodecStart
    /\ CacheStart
    /\ ProcStart
    /\ SessStartOver(Loops)

SpecRestart == RestartInit /\ [][RestartNext]_vars

----------------------------------------------------------------------------
(* Framing claims *)

\* C1: for a well-formed stream of complete frames cut at any offset, the
\* frames of the two extract_frames calls (the second on remainder + rest),
\* concatenated, are exactly the frames of one call on the whole stream.
C1_SplitEquivalence ==
    (phase = "done" /\ stream \in ValidStreams)
        => frames = extract_frames(stream).frames

\* C2: extract_frames on DLE STX + stuffed payload + DLE ETX returns exactly
\* one frame, equal to the payload, and an empty remainder.
C2_StuffingRoundTrip ==
    \A p \in Payloads :
        (phase # "start" /\ chunk = Encode(p))
            => /\ result.frames = <<p>>
               /\ result.remaining_buffer = << >>

C2_Witness ==
    /\ phase = "first"
    /\ chunk = Encode(<<DLE, Other>>)
    /\ result.frames = <<(<<DLE, Other>>)>>

\* A buffer that ends with a DLE outside any open frame: the scan ended
\* without an incomplete frame and the last byte is the escape byte.
EndsWithLoneEscape(buf, r) ==
    /\ Len(buf) > 0
    /\ buf[Len(buf)] = DLE
    /\ r.open = 0

\* C3: a lone escape byte ending the buffer outside any open frame is
\* returned in the remainder, not discarded.
C3_LoneEscapeKept ==
    (phase # "start" /\ EndsWithLoneEscape(chunk, result))
        => /\ Len(result.remaining_buffer) > 0
           /\ result.remaining_buffer[Len(result.remaining_buffer)] = DLE

\* C4: when a start marker found at index i has no terminator, the remainder
\* is buffer[i:] exactly, the frames completed before i are all returned in
\* order, and nothing preceding i is in the remainder.
C4_OpenFrameKept ==
    (phase # "start" /\ result.open # 0)
        => LET i   == result.open
               pre == extract_frames(SubSeq(chunk, 1, i - 1))
           IN  /\ chunk[i] = DLE /\ chunk[i + 1] = STX
               /\ result.remaining_buffer = SubSeq(chunk, i, Len(chunk))
               /\ Len(result.remaining_buffer) = Len(chunk) - i + 1
               /\ result.frames = pre.frames
               /\ pre.open = 0

C4_Witness ==
    /\ phase = "first"
    /\ result.open > 1
    /\ Len(result.frames) > 0
    /\ Len(result.remaining_buffer) > 2

\* C27: for a frame whose payload holds an escape byte followed by a byte X
\* that is neither ETX nor DLE, extract_frames returns one frame, the
\* payload as sent: the escape byte is kept and X follows it.
C27_LoneEscapeLiteral ==
    \A p \in LoneEscapePayloads :
        (phase # "start" /\ chunk = RawFrame(p))
            => /\ result.frames = <<p>>
               /\ result.remaining_buffer = << >>

C27_Witness ==
    /\ phase = "first"
    /\ chunk = <<DLE, STX, Other, DLE, STX, ETX, DLE, ETX>>
    /\ result.frames = <<(<<Other, DLE, STX, ETX>>)>>

----------------------------------------------------------------------------
(* The parts together *)
Init == CodecInit
Next == CodecNext \/ CacheNext \/ FilterNext \/ GetStats \/ SessionNext
Spec == Init /\ [][Next]_vars

----------------------------------------------------------------------------
(* Cache claims *)

Entry(k) == heap[Lookup(aircraft_database, k)]

\* C5: once the persistence window has elapsed since the last
\* update_aircraft_data call, get_current_aircraft returns an empty list.
C5_ExpiredAbsentFromSnapshot ==
    (/\ snapInfo.taken
     /\ snapInfo.last_update # NoTime
     /\ snapInfo.time - snapInfo.last_update > PersistenceTime)
        => snap = << >>

\* C6: after the cache update, every accepted record of the payload is in
\* the cache under the key it had in the payload mapping, with its altitude
\* (stated for the records that carry no id field of their own).
C6_KeyedByPayloadKey ==
    (pc = "returned" /\ aircraft_list # << >>)
        => \A i \in 1..Len(payload) :
              (/\ PassesFilters(payload[i], filters) = "pass"
               /\ ~Has(payload[i], "adshex"))
                  => /\ Ids[i] \in Keys(aircraft_database)
                     /\ Entry(Ids[i]).altitude = payload[i]["altitude"]

\* the ids update_aircraft_data upserts from a batch, and the record that is
\* last for an id
UpsertedIds(batch) ==
    {batch[i]["adshex"] : i \in {j \in 1..Len(batch) : Has(batch[j], "adshex")}}
LastFor(batch, id) ==
    LET at == {j \in 1..Len(batch) :
                  Has(batch[j], "adshex") /\ batch[j]["adshex"] = id}
    IN  batch[CHOOSE j \in at : \A m \in at : m <= j]

\* C7: when update_aircraft_data returns at time now, the cache holds no
\* entry older than the window, every earlier entry not older than the
\* window (one aged exactly the window included), one entry per id with the
\* last record of the batch for that id, and every upserted entry has age 0.
C7_UpdatePostcondition ==
    (pc = "returned" /\ aircraft_list # << >>)
        => LET now   == current_time
               db    == aircraft_database
               ups   == UpsertedIds(aircraft_list)
               prior == {i \in 1..Len(before) :
                            /\ before[i].adshex \notin ups
                            /\ now - before[i].last_seen_timestamp
                                  <= PersistenceTime}
           IN  /\ \A i \in 1..Len(db) :
                     /\ now - heap[db[i].ref].last_seen_timestamp <= PersistenceTime
                     /\ heap[db[i].ref].adshex = db[i].key
                     /\ \/ db[i].key \in ups
                        \/ \E j \in prior : before[j].adshex = db[i].key
               /\ \A i, j \in 1..Len(db) : db[i].key = db[j].key => i = j
               /\ \A id \in ups :
                     /\ id \in Keys(db)
                     /\ Entry(id) = MinimalAircraft(LastFor(aircraft_list, id), now)
                     /\ Entry(id).age_seconds = 0
               /\ \A j \in prior :
                     /\ before[j].adshex \in Keys(db)
                     /\ Entry(before[j].adshex) =
                           [before[j] EXCEPT !.age_seconds =
                               now - before[j].last_seen_timestamp]

\* an earlier entry aged exactly the window was kept while a batch with two
\* records for one id was applied, the last one winning
C7_Witness ==
    /\ pc = "returned"
    /\ Len(aircraft_list) = 2
    /\ Get(aircraft_list[1], "adshex", None) = "AC1"
    /\ Get(aircraft_list[2], "adshex", None) = "AC1"
    /\ aircraft_list[1]["altitude"] # aircraft_list[2]["altitude"]
    /\ Keys(aircraft_database) = {"AC1", "AC2"}
    /\ Entry("AC1").altitude = aircraft_list[2]["altitude"]
    /\ current_time - Entry("AC2").last_seen_timestamp = PersistenceTime

\* C8: every entry of a snapshot carries the age (time of the
\* get_current_aircraft call - its last-seen time).
C8_AgeAtSnapshotCall ==
    snapInfo.taken
        => \A i \in 1..Len(seen) :
              seen[i].age_seconds = snapInfo.time - seen[i].last_seen_timestamp

\* C9: no later update_aircraft_data call changes the entries or any field
\* value of an entry of a snapshot a reader holds.
C9_SnapshotFrozen ==
    snapInfo.taken
        => /\ Len(snap) = Len(seen)
           /\ \A i \in 1..Len(snap) : heap[snap[i]] = seen[i]

\* C10: a snapshot never contains a partially applied batch: it equals the
\* cache contents as the last completed update_aircraft_data call left them
\* (as constructed, when there was none).
C10_SnapshotAtomic ==
    snapInfo.taken => seen = snapInfo.committed

\* the second record of a batch is about to be upserted, the cache already
\* holds the first, and the list the reader holds is the cache as it was
\* before this batch
C10_Witness ==
    /\ snapInfo.taken
    /\ pc = "upsert"
    /\ idx = 2
    /\ Len(aircraft_list) = 2
    /\ Len(seen) > 0
    /\ seen = before
    /\ Contents(aircraft_database, heap) # before

----------------------------------------------------------------------------
(* Filter claims *)

\* C11: a stats dict returned by get_stats while process_aircraft_data is
\* running never shows a batch half applied: it equals the stats as they
\* were when the call began or as they are once the whole batch is counted.
C11_StatsCopyWhole ==
    (statsCopy.taken /\ statsCopy.active)
        => statsCopy.value \in
              {statsCopy.call.stats,
               StatsAfter(statsCopy.call.stats, statsCopy.records,
                          statsCopy.call.filters)}

\* The five checks of the filter, as the contract words them
OnGround(r) == Has(r, "is_on_ground") /\ r["is_on_ground"] = TRUE
HasPosition(r) == Has(r, "lat") /\ Has(r, "lon")
BelowMinimum(r, f) == Has(r, "altitude") /\ r["altitude"] < f["min_altitude"]
Admissible(r, f) ==
    /\ HasPosition(r)
    /\ ~OnGround(r)
    /\ Has(r, "altitude")
    /\ r["altitude"] >= f["min_altitude"]
    /\ r["altitude"] <= f["max_altitude"]
AdmissibleAtCall(r) == Admissible(r, atCall.filters)

\* the filter loop of the call in progress is over
Filtered == fpc \in {"notify", "done"}
\* no update_filters call since the call in progress began
SameFilters == upd.n = atCall.updates
Among(sq, i) == sq[i] \in Range(filtered_aircraft)

\* C12: the list process_aircraft_data returns holds exactly the records of
\* the batch that pass the five checks (coordinates present, not on ground,
\* altitude present, at least the minimum, at most the maximum), in input
\* order.
C12_ResultIsAdmissible ==
    (Filtered /\ SameFilters)
        => filtered_aircraft = SelectSeq(all_aircraft, AdmissibleAtCall)

C12_Witness ==
    /\ fpc = "done"
    /\ SameFilters
    /\ all_aircraft = <<Airborne(50), Airborne(100)>>
    /\ filtered_aircraft = <<Airborne(100)>>

\* C13, as stated: every record with the on-ground flag set is rejected and
\* adds exactly one to ground_filtered, whatever its other fields are.
C13_GroundAlwaysCounted ==
    Filtered =>
        /\ \A i \in 1..Len(all_aircraft) :
              OnGround(all_aircraft[i]) => ~Among(all_aircraft, i)
        /\ stats.ground_filtered - atCall.stats.ground_filtered
              = Cardinality({i \in 1..Len(all_aircraft) :
                                OnGround(all_aircraft[i])})

\* C13, amended: every record with the on-ground flag set is rejected; it
\* adds exactly one to ground_filtered when both coordinates are present,
\* and nothing when a coordinate is missing.
C13_GroundCountedWithPosition ==
    Filtered =>
        /\ \A i \in 1..Len(all_aircraft) :
              OnGround(all_aircraft[i]) => ~Among(all_aircraft, i)
        /\ stats.ground_filtered - atCall.stats.ground_filtered
              = Cardinality({i \in 1..Len(all_aircraft) :
                                /\ OnGround(all_aircraft[i])
                                /\ HasPosition(all_aircraft[i])})

C13_Witness ==
    /\ fpc = "done"
    /\ Len(all_aircraft) = 2
    /\ OnGround(all_aircraft[1]) /\ HasPosition(all_aircraft[1])
    /\ OnGround(all_aircraft[2]) /\ ~HasPosition(all_aircraft[2])
    /\ stats.ground_filtered = atCall.stats.ground_filtered + 1
    /\ filtered_aircraft = << >>

\* C14, as stated: every record whose altitude is strictly below the
\* minimum is rejected and adds exactly one to low_altitude_filtered,
\* whatever its other fields are.
C14_LowAlwaysCounted ==
    (Filtered /\ SameFilters) =>
        /\ \A i \in 1..Len(all_aircraft) :
              BelowMinimum(all_aircraft[i], atCall.filters)
                  => ~Among(all_aircraft, i)
        /\ stats.low_altitude_filtered - atCall.stats.low_altitude_filtered
              = Cardinality({i \in 1..Len(all_aircraft) :
                                BelowMinimum(all_aircraft[i], atCall.filters)})

\* C14, amended: every record whose altitude is strictly below the minimum
\* is rejected; it adds exactly one to low_altitude_filtered when both
\* coordinates are present and the on-ground flag is not set, and nothing
\* when an earlier check rejects it.
C14_LowCountedAfterEarlierChecks ==
    (Filtered /\ SameFilters) =>
        /\ \A i \in 1..Len(all_aircraft) :
              BelowMinimum(all_aircraft[i], atCall.filters)
                  => ~Among(all_aircraft, i)
        /\ stats.low_altitude_filtered - atCall.stats.low_altitude_filtered
              = Cardinality({i \in 1..Len(all_aircraft) :
                                /\ BelowMinimum(all_aircraft[i], atCall.filters)
                                /\ HasPosition(all_aircraft[i])
                                /\ ~OnGround(all_aircraft[i])})

C14_Witness ==
    /\ fpc = "done"
    /\ SameFilters
    /\ all_aircraft = <<Airborne(50), Airborne(100)>>
    /\ stats.low_altitude_filtered = atCall.stats.low_altitude_filtered + 1
    /\ filtered_aircraft = <<Airborne(100)>>

Counters == {"payloads_processed", "total_aircraft", "filtered_aircraft",
             "ground_filtered", "low_altitude_filtered"}

\* C15: no step ever lowers a counter, and when process_aircraft_data has
\* finished its work payloads_processed is one more than when the call
\* began, total_aircraft more by the size of the batch and filtered_aircraft
\* more by the number of accepted records, whether or not a record was
\* accepted and whether or not a callback raised.
C15_CountersPerCall ==
    [][ /\ \A c \in Counters : stats'[c] >= stats[c]
        /\ fpc' = "done" =>
              /\ stats'.payloads_processed
                    = atCall'.stats.payloads_processed + 1
              /\ stats'.total_aircraft
                    = atCall'.stats.total_aircraft + Len(all_aircraft')
              /\ stats'.filtered_aircraft
                    = atCall'.stats.filtered_aircraft + Len(filtered_aircraft')
      ]_vars

C15_Witness ==
    /\ fpc = "done"
    /\ Len(all_aircraft) = 2
    /\ Len(filtered_aircraft) = 1
    /\ \E i \in 1..Len(invoked) : invoked[i].raised
    /\ stats.payloads_processed = 2
    /\ stats.total_aircraft = atCall.stats.total_aircraft + 2
    /\ stats.filtered_aircraft = atCall.stats.filtered_aircraft + 1

Abs(x) == IF x < 0 THEN 0 - x ELSE x

\* C16: between calls, filter_pass_rate (in tenths of a percent) is the
\* multiple of 0.1 nearest to filtered_aircraft / total_aircraft * 100 when
\* total_aircraft > 0, and is 0 when total_aircraft is 0.
C16_PassRate ==
    fpc \in {"idle", "done"} =>
        IF stats.total_aircraft > 0
        THEN 2 * Abs(stats.filter_pass_rate * stats.total_aircraft
                     - 1000 * stats.filtered_aircraft)
                <= stats.total_aircraft
        ELSE stats.filter_pass_rate = 0

C16_Witness ==
    /\ fpc = "idle"
    /\ stats.payloads_processed = 2
    /\ stats.total_aircraft = 3
    /\ stats.filtered_aircraft = 2
    /\ stats.filter_pass_rate = 667

\* C17: the call never ends by an exception of a callback; when its work is
\* done and the accepted list is not empty, the invocations made are one
\* per registered callback, in registration order, each with the accepted
\* list; when the accepted list is empty there is no invocation.
C17_CallbacksNotified ==
    /\ fpc # "raised"
    /\ fpc = "done" =>
          IF filtered_aircraft # << >>
          THEN /\ Len(invoked) = Len(callbacks)
               /\ \A i \in 1..Len(invoked) :
                     /\ invoked[i].callback = callbacks[i]
                     /\ invoked[i].arg = filtered_aircraft
          ELSE invoked = << >>

C17_Witness ==
    /\ fpc = "done"
    /\ callbacks = <<"other", "update_aircraft_data">>
    /\ Len(invoked) = 2
    /\ invoked[1].callback = "other" /\ invoked[1].raised
    /\ invoked[2].callback = "update_aircraft_data" /\ ~invoked[2].raised
    /\ invoked[2].arg = filtered_aircraft

\* C18: a step of update_filters leaves filters with every key of its
\* argument at the new value and every other key at its previous value,
\* sets stats.current_filters to that configuration, and changes no other
\* field of stats, nothing of the session and nothing of the cache; a call
\* of process_aircraft_data begun after the update returns the records
\* admissible under the merged thresholds.
C18_UpdateMerges ==
    [][ /\ upd'.n # upd.n =>
              /\ DOMAIN filters' = DOMAIN filters \cup DOMAIN upd'.new
              /\ \A k \in DOMAIN upd'.new : filters'[k] = upd'.new[k]
              /\ \A k \in DOMAIN filters \ DOMAIN upd'.new :
                    filters'[k] = filters[k]
              /\ stats' = [stats EXCEPT !.current_filters = filters']
              /\ UNCHANGED <<sessVars, cacheVars, buffer>>
        /\ (fpc' = "done" /\ upd'.n > 0 /\ atCall'.updates = upd'.n) =>
              LET merged == [k \in DOMAIN upd'.old \cup DOMAIN upd'.new |->
                                IF k \in DOMAIN upd'.new THEN upd'.new[k]
                                ELSE upd'.old[k]]
                  AdmissibleMerged(r) == Admissible(r, merged)
              IN  filtered_aircraft'
                      = SelectSeq(all_aircraft', AdmissibleMerged)
      ]_vars

C18_Witness ==
    /\ fpc = "done"
    /\ upd.n = 1
    /\ upd.new = [min_altitude |-> 10000]
    /\ atCall.updates = 1
    /\ filters = [max_altitude |-> 10000, min_altitude |-> 10000]
    /\ stats.current_filters = filters
    /\ all_aircraft = <<Airborne(100), Airborne(10000)>>
    /\ filtered_aircraft = <<Airborne(10000)>>

----------------------------------------------------------------------------
(* Session claims *)

\* C19: a connection attempt that follows the loss of an established
\* connection (read error or close by the server), with no stop requested
\* meanwhile, begins with the transport closed and after a wait of
\* reconnect_delay.
C19_DelayAfterLoss ==
    [][ \A t \in Threads :
           (/\ tpc[t] = "connect" /\ tpc'[t] = "connecting"
            /\ prev[t].outcome = "lost" /\ ~prev[t].stopped)
               => /\ socket = "closed"
                  /\ prev[t].waited = reconnect_delay
      ]_vars

Pending(t) == prev[t].outcome \in {"failed", "lost"} /\ ~prev[t].stopped

\* C20: a thread whose attempt failed or whose connection was lost begins a
\* new attempt later unless stop is requested; the wait before an attempt
\* is never more than reconnect_delay.
C20_RetriesForever ==
    /\ \A t \in Threads : Pending(t) ~> ~Pending(t)
    /\ [](\A t \in Threads : /\ prev[t].waited \in {0, reconnect_delay}
                             /\ att[t].waited \in {0, reconnect_delay})

C20_Witness ==
    \E t \in Threads :
        /\ tpc[t] = "connecting"
        /\ att[t].after = "failed"
        /\ att[t].waited = reconnect_delay
        /\ running
        /\ ~Pending(t)

Alive(t) == tpc[t] \notin {"unborn", "exited"}

\* C21: once running is false a live loop ends, unless start() sets running
\* again; when no loop is left connected is false; and a loop moves on to a
\* connection attempt only in a step that finds running true.
C21_StopEndsLoop ==
    /\ \A t \in Threads : (Alive(t) /\ ~running) ~> (~Alive(t) \/ running)
    /\ [](\A t \in Threads : tpc[t] = "exited" =>
               ((\A u \in Threads : ~Alive(u)) => ~connected))
    /\ [][ \A t \in Threads :
              (tpc[t] # "connect" /\ tpc'[t] = "connect") => running ]_vars

C21_Witness ==
    /\ \E t \in Threads : tpc[t] = "exited"
    /\ \A t \in Threads : ~Alive(t)
    /\ ~running
    /\ ~connected
    /\ socket = "closed"
    /\ cpc = "idle"

\* C24: when a connection attempt begins after an attempt of the same loop
\* ended in a transport error (connect, TLS, send, read error, close by the
\* server), the transport the session holds is not open.
C24_ClosedBeforeRetry ==
    [][ \A t \in DOMAIN tpc :
           (/\ tpc[t] = "connect" /\ tpc'[t] = "connecting"
            /\ prev[t].outcome \in {"failed", "lost"})
               => socket # "open"
      ]_vars

\* C22: under any interleaving of start() and stop(), stop immediately
\* followed by start included, at most one _run_client loop is alive.
C22_OneLoop ==
    Cardinality({t \in DOMAIN tpc : Alive(t)}) <= 1

\* C23: a frame that fails decompression or parsing, or decodes to an empty
\* result, is dropped: the step that handles it leaves the statistics, the
\* cache, connected and the socket as they were and keeps the remaining
\* frames of the read, in order, as the next ones to handle; the for loop is
\* left only when no frame remains, and then for the while test of the same
\* connection.
C23_BadFrameDropped ==
    [][ \A t \in DOMAIN tpc :
          /\ (/\ tpc[t] = "frame"
              /\ pending[t] # << >>
              /\ Decode(Head(pending[t])).kind \in DropKinds
              /\ <<tpc[t], pending[t]>>' # <<tpc[t], pending[t]>>)
                => /\ UNCHANGED <<stats, cacheVars, pc, aircraft_list,
                                  applied, connected, socket, sockconn>>
                   /\ pending'[t] = Tail(pending[t])
                   /\ tpc'[t] = "frame"
          /\ (tpc[t] = "frame" /\ tpc'[t] \notin {"frame", "in_call"})
                => (pending[t] = << >> /\ tpc'[t] = "while") ]_vars

\* a read delivered a frame that was dropped and then a good one: the good
\* one reached the cache, the loop is back at its while test, connected
C23_Witness ==
    \E t \in DOMAIN tpc :
        /\ tpc[t] = "while"
        /\ connected
        /\ Len(frames) >= 2
        /\ Decode(frames[1]).kind \in DropKinds
        /\ Decode(frames[Len(frames)]).kind = "mapping"
        /\ applied # << >>
        /\ stats.payloads_processed = 1
        /\ aircraft_database # << >>

\* C25: a read that times out leaves the buffer, connected, the socket, the
\* statistics and the cache unchanged, and the while test that follows
\* issues another read when running and connected are still true, and
\* otherwise leaves the loop for the clean-up; neither step opens a
\* connection.
C25_TimeoutHarmless ==
    [][ \A t \in DOMAIN tpc :
          /\ (tpc[t] = "recv" /\ tpc'[t] = "while")
                => UNCHANGED <<buffer, connected, socket, sockconn, stats,
                               cacheVars>>
          /\ (tpc[t] = "while" /\ tpc'[t] # "while")
                => /\ tpc'[t] = IF running /\ connected
                                THEN "recv" ELSE "cleanup"
                   /\ UNCHANGED <<buffer, connected, socket, sockconn>> ]_vars

\* the start of a frame is buffered, a read has timed out since, and the
\* loop is issuing another read on the same connection with the bytes kept
C25_Witness ==
    \E t \in DOMAIN tpc :
        /\ tpc[t] = "recv"
        /\ timed_out
        /\ running /\ connected /\ socket = "open"
        /\ buffer = <<DLE, STX, ConnByte(sockconn)>>

IsPrefix(a, b) == Len(a) <= Len(b) /\ SubSeq(b, 1, Len(a)) = a

\* the lists update_aircraft_data receives when frames are handled one
\* after the other in the order given
RECURSIVE BatchesOf(_)
BatchesOf(fs) ==
    IF fs = << >>
    THEN << >>
    ELSE LET d        == Decode(Head(fs))
             accepted == SelectSeq2(d.batch, filters)
         IN  (IF d.kind = "mapping" /\ accepted # << >>
              THEN <<accepted>> ELSE << >>) \o BatchesOf(Tail(fs))

\* C26: no read is issued while a frame of an earlier read is waiting or
\* its cache update is running, and the lists update_aircraft_data has
\* received are those of the extracted frames, in the order of extraction.
C26_FramesInOrder ==
    /\ \A t \in DOMAIN tpc :
          tpc[t] = "recv"
              => (pc = "idle" /\ \A u \in DOMAIN tpc : pending[u] = << >>)
    /\ IsPrefix(applied, BatchesOf(frames))

\* C28: no extracted frame holds bytes of two connections.
C28_NoMixedFrame ==
    \A i \in DOMAIN frames :
        \A c, d \in Connections :
            (ConnByte(c) \in Range(frames[i]) /\ ConnByte(d) \in Range(frames[i]))
                => c = d

============================================================================
